---------------------------- MODULE Spec2Model ----------------------------
(***************************************************************************)
(* A model of lc3_vm.c: the LC-3 virtual machine's main(), its fetch loop, *)
(* the opcode handlers, the memory-mapped keyboard and the trap routines.  *)
(*                                                                         *)
(* The machine state that the handlers read and write (memory, reg,        *)
(* running, stdin, stdout) is one record, vm; every handler is an operator *)
(* from a machine and an instruction word to the SET of machines the       *)
(* handler can leave, so that a handler calling mem_read twice (op_ldi)    *)
(* composes, and so that an input the program has not looked at yet (a     *)
(* cell of the image file, the object lying behind the memory array) is    *)
(* chosen at the moment the code first reads it.                           *)
(***************************************************************************)
EXTENDS Integers, Sequences, FiniteSets, TLC

VARIABLES vm, pc, ir, term, original_tio, handler, status, steps, call

vars == <<vm, pc, ir, term, original_tio, handler, status, steps, call>>

---------------------------------------------------------------------------
(* Bounds of the model.                                                    *)

\* instructions executed by the fetch loop in one run
MaxSteps == 2
\* bytes the host delivers on stdin in one run
MaxInput == 2
\* direct calls of mem_write, mem_read and the input traps in one run of SpecMem
MaxCalls == 3
\* non-zero cells of an image string that PUTS/PUTSP walks over
MaxStr == 2

---------------------------------------------------------------------------
(* Program constants.                                                      *)

\* uint16_t: values are kept modulo 2^16
WordMod == 65536
\* UINT16_MAX, the number of elements of memory[]
UINT16_MAX == 65535

R_R0 == 0
R_R7 == 7
R_PC == 8
R_COND == 9
R_COUNT == 10

OP_BR == 0
OP_ADD == 1
OP_LD == 2
OP_ST == 3
OP_JSR == 4
OP_AND == 5
OP_LDR == 6
OP_STR == 7
OP_RTI == 8
OP_NOT == 9
OP_LDI == 10
OP_STI == 11
OP_JMP == 12
OP_RES == 13
OP_LEA == 14
OP_TRAP == 15

FL_POS == 1
FL_ZRO == 2
FL_NEG == 4

PC_START == 12288

TRAP_GETC == 32
TRAP_OUT == 33
TRAP_PUTS == 34
TRAP_IN == 35
TRAP_PUTSP == 36
TRAP_HALT == 37

MR_KBSR == 65024
MR_KBDR == 65026

\* EOF as getchar() returns it
EOF == -1

---------------------------------------------------------------------------
(* 16-bit arithmetic as C computes it on uint16_t.                         *)

U16(x) == x % WordMod

RECURSIVE Pow2(_)
Pow2(n) == IF n = 0 THEN 1 ELSE 2 * Pow2(n - 1)

Shr(x, n) == x \div Pow2(n)
Shl(x, n) == x * Pow2(n)

RECURSIVE BitAnd(_, _)
BitAnd(a, b) ==
    IF a = 0 \/ b = 0 THEN 0
    ELSE (a % 2) * (b % 2) + 2 * BitAnd(a \div 2, b \div 2)

RECURSIVE BitOr(_, _)
BitOr(a, b) ==
    IF a = 0 THEN b
    ELSE IF b = 0 THEN a
    ELSE (IF a % 2 = 1 \/ b % 2 = 1 THEN 1 ELSE 0) + 2 * BitOr(a \div 2, b \div 2)

\* ~x on a uint16_t, truncated back to 16 bits
BitNot(x) == U16(-x - 1)

---------------------------------------------------------------------------
(* The inputs of a run, drawn from small sets.                             *)

\* Input bytes the host can deliver: 'A' and a byte with bit 7 set.
Bytes == {65, 200}

\* Image words a cell can hold when the loop fetches it before anything wrote it.
Instrs ==
    { 0,        \* BR   (mask 0) +0
      3585,     \* BRnzp +1
      1025,     \* BRz  +1
      4161,     \* ADD  R0, R1, R1
      4609,     \* ADD  R1, R0, R1
      4735,     \* ADD  R1, R1, #-1
      5729,     \* ADD  R3, R1, #1
      21088,    \* AND  R1, R1, #0
      21569,    \* AND  R2, R1, R1
      37503,    \* NOT  R1, R1
      49216,    \* JMP  R1
      49600,    \* JMP  R7 (RET)
      18433,    \* JSR  +1
      16448,    \* JSRR R1
      16832,    \* JSRR R7
      8705,     \* LD   R1, +1
      9726,     \* LD   R2, -2
      41473,    \* LDI  R1, +1
      25151,    \* LDR  R1, R0, #-1
      25664,    \* LDR  R2, R1, #0
      57345,    \* LEA  R0, +1
      58362,    \* LEA  R1, -6
      13314,    \* ST   R2, +2
      13311,    \* ST   R1, -1
      46081,    \* STI  R2, +1
      29247,    \* STR  R1, R0, #-1
      29248,    \* STR  R1, R1, #0
      61472,    \* TRAP GETC
      61473,    \* TRAP OUT
      61474,    \* TRAP PUTS
      61475,    \* TRAP IN
      61476,    \* TRAP PUTSP
      61477,    \* TRAP HALT
      61695,    \* TRAP 0xFF (no such routine)
      32768,    \* RTI
      53248 }   \* RES

\* Image words a cell can hold when a load reads it before anything wrote it:
\* zero, a positive value, an address three cells before KBSR, KBSR and the
\* last address.
DataWords == {0, 65, 65021, MR_KBSR, 65535}

\* Image words of a string that PUTS/PUTSP walks over.
StrWords == {0, 66, 17218}

\* Origins of the image files considered.
Origins == {0, PC_START}

---------------------------------------------------------------------------
(* struct termios, as far as the program reads and writes it: the two      *)
(* c_lflag bits it clears and the rest of the structure, which is either   *)
(* what the host's terminal had or all zero (static storage never filled). *)

ZeroTio == [icanon |-> FALSE, echo |-> FALSE, rest |-> "zero"]
HostTio == [icanon |-> TRUE, echo |-> TRUE, rest |-> "host"]

---------------------------------------------------------------------------
(* The machine.                                                            *)
(*   reg, memory, running : the program's globals.  memory holds the cells *)
(*       0 .. UINT16_MAX-1 that something has read or written; a cell not  *)
(*       in its domain is still what the loader left there (image).        *)
(*   image   : what read_image did: nothing (all of memory is zero), or    *)
(*             a file loaded at origin.                                    *)
(*   behind  : the object the linker put right behind memory[]: unknown    *)
(*             until the first access to memory[UINT16_MAX], then padding  *)
(*             (cell pad) or reg[] (reg[0]).                               *)
(*   oob     : an access fell outside memory[].                            *)
(*   fdq, eof: the bytes waiting in the terminal's queue of fd 0, and      *)
(*             whether the terminal has hung up.                           *)
(*   sbuf    : the bytes stdio has read from fd 0 and not yet handed out.  *)
(*   nin     : bytes delivered by the host so far.                         *)
(*   out     : the bytes written to stdout.                                *)
(*   schar   : whether plain char is signed in this build; unknown until   *)
(*             the code converts a char above 127.                         *)

NewMachine ==
    [ reg |-> [r \in 0 .. R_COUNT - 1 |-> 0],
      memory |-> [a \in {} |-> 0],
      running |-> FALSE,
      image |-> [loaded |-> FALSE, origin |-> 0],
      behind |-> "unknown",
      pad |-> 0,
      oob |-> FALSE,
      fdq |-> <<>>,
      sbuf |-> <<>>,
      eof |-> FALSE,
      nin |-> 0,
      out |-> <<>>,
      schar |-> "unknown" ]

\* f with cell i set to v
Store(f, i, v) == [a \in DOMAIN f \cup {i} |-> IF a = i THEN v ELSE f[a]]

\* What the loader left in cell i: a word of the file if the file covers the
\* cell (read_image_file fills cells origin .. UINT16_MAX-1 at most), else the
\* zero of static storage.
ImageCell(m, i, pick) ==
    IF m.image.loaded /\ i >= m.image.origin /\ i < UINT16_MAX THEN pick ELSE {0}

\* The layouts a machine can still have behind memory[].
Layouts(m) == IF m.behind = "unknown" THEN {"pad", "reg"} ELSE {m.behind}

\* The word k words behind the end of memory[] under layout b: with "reg",
\* reg[] follows directly; with "pad", one word of padding and then reg[]
\* (what gcc lays out at -O0: memory at ...a0, 0x1fffe bytes, reg at the next
\* 32-byte boundary).  Static storage behind reg[] reads as zero.
Behind(m, b, k) ==
    LET r == IF b = "pad" THEN k - 1 ELSE k
    IN  IF r < 0 THEN m.pad
        ELSE IF r < R_COUNT THEN m.reg[r]
        ELSE 0

\* memory[i] as an rvalue: the set of [val, m] it can produce.
CellRead(m, i, pick) ==
    IF i < UINT16_MAX
    THEN IF i \in DOMAIN m.memory
         THEN {[val |-> m.memory[i], m |-> m]}
         ELSE {[val |-> w, m |-> [m EXCEPT !.memory = Store(@, i, w)]] :
                  w \in ImageCell(m, i, pick)}
    ELSE {[val |-> Behind(m, b, i - UINT16_MAX),
           m |-> [m EXCEPT !.behind = b, !.oob = TRUE]] : b \in Layouts(m)}

\* memory[i] = v, for i a uint16_t
CellWrite(m, i, v) ==
    IF i < UINT16_MAX
    THEN {[m EXCEPT !.memory = Store(@, i, v)]}
    ELSE {IF b = "pad"
          THEN [m EXCEPT !.behind = b, !.oob = TRUE, !.pad = v]
          ELSE [m EXCEPT !.behind = b, !.oob = TRUE, !.reg[R_R0] = v] :
             b \in Layouts(m)}

\* select() on fd 0 with a zero timeout: readable when the terminal's queue
\* holds a byte or has hung up.  It does not see what stdio has buffered.
\* A check_key that always reports a key.
check_key_always(m) ==
    m.fdq = m.fdq

check_key(m) ==
    m.fdq # <<>> \/ m.eof

\* getchar(): the next byte of stdio's buffer; with the buffer empty, one
\* read() moves what the terminal's queue holds into it; EOF after a hang-up.
\* The empty set: the call blocks.
getchar(m) ==
    IF m.sbuf # <<>>
    THEN {[c |-> Head(m.sbuf), m |-> [m EXCEPT !.sbuf = Tail(@)]]}
    ELSE IF m.fdq # <<>>
    THEN {[c |-> Head(m.fdq), m |-> [m EXCEPT !.sbuf = Tail(m.fdq), !.fdq = <<>>]]}
    ELSE IF m.eof
    THEN {[c |-> EOF, m |-> m]}
    ELSE {}

\* A mem_write that leaves the device registers alone.
mem_write_skips_devices(m, address, val) ==
    IF address >= MR_KBSR THEN {m} ELSE CellWrite(m, address, val)

mem_write(m, address, val) ==
    CellWrite(m, address, val)

\* The machine after the keyboard poll of a read of KBSR.
PollKeyboard(m) ==
    IF check_key(m)
    THEN {[g.m EXCEPT !.memory =
              Store(Store(@, MR_KBSR, Shl(1, 15)), MR_KBDR, U16(g.c))] :
             g \in getchar(m)}
    ELSE {[m EXCEPT !.memory = Store(@, MR_KBSR, 0)]}

\* The set of [val, m]: the word returned and the machine left.  pick: the
\* words the image may hold in the cell if nothing has read or written it yet.
mem_read(m, address, pick) ==
    IF address = MR_KBSR
    THEN UNION {CellRead(p, address, pick) : p \in PollKeyboard(m)}
    ELSE CellRead(m, address, pick)

sign_extend(x, bit_count) ==
    IF BitAnd(Shr(x, bit_count - 1), 1) # 0
    THEN U16(BitOr(x, Shl(65535, bit_count)))
    ELSE x

\* An update_flags that tests the sign before zero and takes bit 14 for it.
update_flags_bit14(m, reg_index) ==
    IF m.reg[reg_index] = 0
    THEN [m EXCEPT !.reg[R_COND] = FL_ZRO]
    ELSE IF Shr(m.reg[reg_index], 14) # 0
    THEN [m EXCEPT !.reg[R_COND] = FL_NEG]
    ELSE [m EXCEPT !.reg[R_COND] = FL_POS]

\* An update_flags that adds the new flag to the ones already set.
update_flags_accumulates(m, reg_index) ==
    IF m.reg[reg_index] = 0
    THEN [m EXCEPT !.reg[R_COND] = BitOr(@, FL_ZRO)]
    ELSE IF Shr(m.reg[reg_index], 15) # 0
    THEN [m EXCEPT !.reg[R_COND] = BitOr(@, FL_NEG)]
    ELSE [m EXCEPT !.reg[R_COND] = BitOr(@, FL_POS)]

update_flags(m, reg_index) ==
    IF m.reg[reg_index] = 0
    THEN [m EXCEPT !.reg[R_COND] = FL_ZRO]
    ELSE IF Shr(m.reg[reg_index], 15) # 0
    THEN [m EXCEPT !.reg[R_COND] = FL_NEG]
    ELSE [m EXCEPT !.reg[R_COND] = FL_POS]

---------------------------------------------------------------------------
(* The opcode handlers: from the machine after the fetch (PC already       *)
(* incremented) and the instruction word to the set of machines left.      *)

\* An op_add that takes IMM5 as an unsigned number.
op_add_unsigned_imm(m, instr) ==
    LET dst_reg == BitAnd(Shr(instr, 9), 7)
        src_reg1 == BitAnd(Shr(instr, 6), 7)
        imm5_flag == BitAnd(Shr(instr, 5), 1) # 0
        imm5 == BitAnd(instr, 31)
        src_reg2 == BitAnd(instr, 7)
    IN  IF imm5_flag
        THEN {update_flags([m EXCEPT !.reg[dst_reg] = U16(m.reg[src_reg1] + imm5)],
                           dst_reg)}
        ELSE {update_flags([m EXCEPT !.reg[dst_reg] =
                                U16(m.reg[src_reg1] + m.reg[src_reg2])], dst_reg)}

op_add(m, instr) ==
    LET dst_reg == BitAnd(Shr(instr, 9), 7)
        src_reg1 == BitAnd(Shr(instr, 6), 7)
        imm5_flag == BitAnd(Shr(instr, 5), 1) # 0
        imm5 == sign_extend(BitAnd(instr, 31), 5)
        src_reg2 == BitAnd(instr, 7)
    IN  IF imm5_flag
        THEN {update_flags([m EXCEPT !.reg[dst_reg] = U16(m.reg[src_reg1] + imm5)],
                           dst_reg)}
        ELSE {update_flags([m EXCEPT !.reg[dst_reg] =
                                U16(m.reg[src_reg1] + m.reg[src_reg2])], dst_reg)}

op_and(m, instr) ==
    LET dst_reg == BitAnd(Shr(instr, 9), 7)
        src_reg1 == BitAnd(Shr(instr, 6), 7)
        imm5_flag == BitAnd(Shr(instr, 5), 1) # 0
        imm5 == sign_extend(BitAnd(instr, 31), 5)
        src_reg2 == BitAnd(instr, 7)
    IN  IF imm5_flag
        THEN {update_flags([m EXCEPT !.reg[dst_reg] = BitAnd(m.reg[src_reg1], imm5)],
                           dst_reg)}
        ELSE {update_flags([m EXCEPT !.reg[dst_reg] =
                                BitAnd(m.reg[src_reg1], m.reg[src_reg2])], dst_reg)}

op_not(m, instr) ==
    LET dst_reg == BitAnd(Shr(instr, 9), 7)
        src_reg == BitAnd(Shr(instr, 6), 7)
    IN  {update_flags([m EXCEPT !.reg[dst_reg] = BitNot(m.reg[src_reg])], dst_reg)}

op_br(m, instr) ==
    LET pc_offset9 == sign_extend(BitAnd(instr, 511), 9)
        cond_flag == BitAnd(Shr(instr, 9), 7)
    IN  IF BitAnd(cond_flag, m.reg[R_COND]) # 0
        THEN {[m EXCEPT !.reg[R_PC] = U16(@ + pc_offset9)]}
        ELSE {m}

op_jmp(m, instr) ==
    LET base_reg == BitAnd(Shr(instr, 6), 7)
    IN  {[m EXCEPT !.reg[R_PC] = m.reg[base_reg]]}

\* An op_jsr that links the address of the JSR itself.
op_jsr_links_itself(m, instr) ==
    LET long_flag == BitAnd(Shr(instr, 11), 1)
        m1 == [m EXCEPT !.reg[R_R7] = U16(m.reg[R_PC] + 65535)]
        pc_offset11 == sign_extend(BitAnd(instr, 2047), 11)
        base_reg == BitAnd(Shr(instr, 6), 7)
    IN  IF long_flag # 0
        THEN {[m1 EXCEPT !.reg[R_PC] = U16(@ + pc_offset11)]}
        ELSE {[m1 EXCEPT !.reg[R_PC] = m1.reg[base_reg]]}

\* An op_jsr that reads the base register before it links R7.
op_jsr_reads_base_first(m, instr) ==
    LET long_flag == BitAnd(Shr(instr, 11), 1)
        m1 == [m EXCEPT !.reg[R_R7] = m.reg[R_PC]]
        pc_offset11 == sign_extend(BitAnd(instr, 2047), 11)
        base_reg == BitAnd(Shr(instr, 6), 7)
    IN  IF long_flag # 0
        THEN {[m1 EXCEPT !.reg[R_PC] = U16(@ + pc_offset11)]}
        ELSE {[m1 EXCEPT !.reg[R_PC] = m.reg[base_reg]]}

op_jsr(m, instr) ==
    LET long_flag == BitAnd(Shr(instr, 11), 1)
        m1 == [m EXCEPT !.reg[R_R7] = m.reg[R_PC]]
        pc_offset11 == sign_extend(BitAnd(instr, 2047), 11)
        base_reg == BitAnd(Shr(instr, 6), 7)
    IN  IF long_flag # 0
        THEN {[m1 EXCEPT !.reg[R_PC] = U16(@ + pc_offset11)]}
        ELSE {[m1 EXCEPT !.reg[R_PC] = m1.reg[base_reg]]}

op_ld(m, instr) ==
    LET dst_reg == BitAnd(Shr(instr, 9), 7)
        pc_offset9 == sign_extend(BitAnd(instr, 511), 9)
    IN  {update_flags([r.m EXCEPT !.reg[dst_reg] = r.val], dst_reg) :
            r \in mem_read(m, U16(m.reg[R_PC] + pc_offset9), DataWords)}

op_ldi(m, instr) ==
    LET dst_reg == BitAnd(Shr(instr, 9), 7)
        pc_offset9 == sign_extend(BitAnd(instr, 511), 9)
    IN  UNION {{update_flags([r.m EXCEPT !.reg[dst_reg] = r.val], dst_reg) :
                   r \in mem_read(a.m, a.val, DataWords)} :
                  a \in mem_read(m, U16(m.reg[R_PC] + pc_offset9), DataWords)}

op_ldr(m, instr) ==
    LET dst_reg == BitAnd(Shr(instr, 9), 7)
        base_reg == BitAnd(Shr(instr, 6), 7)
        pc_offset6 == sign_extend(BitAnd(instr, 63), 6)
    IN  {update_flags([r.m EXCEPT !.reg[dst_reg] = r.val], dst_reg) :
            r \in mem_read(m, U16(m.reg[base_reg] + pc_offset6), DataWords)}

\* An op_lea that loads the address and leaves COND alone.
op_lea_keeps_cond(m, instr) ==
    LET dst_reg == BitAnd(Shr(instr, 9), 7)
        pc_offset9 == sign_extend(BitAnd(instr, 511), 9)
    IN  {[m EXCEPT !.reg[dst_reg] = U16(m.reg[R_PC] + pc_offset9)]}

op_lea(m, instr) ==
    LET dst_reg == BitAnd(Shr(instr, 9), 7)
        pc_offset9 == sign_extend(BitAnd(instr, 511), 9)
    IN  {update_flags([m EXCEPT !.reg[dst_reg] = U16(m.reg[R_PC] + pc_offset9)],
                      dst_reg)}

\* An op_st that stores the register's number where its value belongs.
op_st_stores_index(m, instr) ==
    LET src_reg == BitAnd(Shr(instr, 9), 7)
        pc_offset9 == sign_extend(BitAnd(instr, 511), 9)
        address == U16(m.reg[R_PC] + pc_offset9)
    IN  mem_write(m, address, src_reg)

op_st(m, instr) ==
    LET src_reg == BitAnd(Shr(instr, 9), 7)
        pc_offset9 == sign_extend(BitAnd(instr, 511), 9)
        address == U16(m.reg[R_PC] + pc_offset9)
    IN  mem_write(m, address, m.reg[src_reg])

op_sti(m, instr) ==
    LET src_reg == BitAnd(Shr(instr, 9), 7)
        pc_offset9 == sign_extend(BitAnd(instr, 511), 9)
    IN  UNION {mem_write(a.m, a.val, a.m.reg[src_reg]) :
                  a \in mem_read(m, U16(m.reg[R_PC] + pc_offset9), DataWords)}

op_str(m, instr) ==
    LET src_reg == BitAnd(Shr(instr, 9), 7)
        base_reg == BitAnd(Shr(instr, 6), 7)
        pc_offset6 == sign_extend(BitAnd(instr, 63), 6)
        address == U16(m.reg[base_reg] + pc_offset6)
    IN  mem_write(m, address, m.reg[src_reg])

---------------------------------------------------------------------------
(* The trap routines.                                                      *)

\* (uint16_t)ch for a char ch holding byte b: sign-extended where plain char
\* is signed.
CharToU16(b, signed) == IF signed /\ b >= 128 THEN U16(b - 256) ELSE b

\* The signedness of plain char this build can still have.
SChars(m) == IF m.schar = "unknown" THEN {"signed", "unsigned"} ELSE {m.schar}

Emit(m, bytes) == [m EXCEPT !.out = @ \o bytes]

trap_getc(m) ==
    {[g.m EXCEPT !.reg[R_R0] = U16(g.c)] : g \in getchar(m)}

trap_out(m) ==
    {Emit(m, <<m.reg[R_R0] % 256>>)}

\* The walk of trap_puts from memory + i, n non-zero words written so far.
\* The pointer is not reduced modulo 2^16: behind memory[UINT16_MAX-1] it
\* leaves the array.
RECURSIVE puts_walk(_, _, _)
puts_walk(m, i, n) ==
    UNION {IF r.val = 0
           THEN {r.m}
           ELSE puts_walk(Emit(r.m, <<r.val % 256>>), i + 1, n + 1) :
              r \in CellRead(m, i, IF n < MaxStr THEN StrWords ELSE {0})}

trap_puts(m) == puts_walk(m, m.reg[R_R0], 0)

\* "Enter a character:\n"
Prompt ==
    <<69, 110, 116, 101, 114, 32, 97, 32, 99, 104, 97, 114, 97, 99, 116, 101,
      114, 58, 10>>

trap_in(m) ==
    UNION {{[Emit(g.m, Prompt \o <<g.c % 256>>) EXCEPT
                !.reg[R_R0] = CharToU16(g.c % 256, s = "signed"),
                !.schar = IF g.c % 256 >= 128 THEN s ELSE @] :
               s \in IF g.c % 256 >= 128 THEN SChars(g.m) ELSE {g.m.schar}} :
              g \in getchar(m)}

RECURSIVE putsp_walk(_, _, _)
putsp_walk(m, i, n) ==
    UNION {IF r.val = 0
           THEN {r.m}
           ELSE LET ch1 == BitAnd(r.val, 255)
                    ch2 == Shr(r.val, 8) % 256
                IN  putsp_walk(Emit(r.m, IF ch2 # 0 THEN <<ch1, ch2>> ELSE <<ch1>>),
                               i + 1, n + 1) :
              r \in CellRead(m, i, IF n < MaxStr THEN StrWords ELSE {0})}

trap_putsp(m) == putsp_walk(m, m.reg[R_R0], 0)

\* "HATL\n"
HaltMessage == <<72, 65, 84, 76, 10>>

\* A trap_halt that prints its message and leaves the loop running.
trap_halt_keeps_running(m) ==
    {Emit(m, HaltMessage)}

trap_halt(m) ==
    {[Emit(m, HaltMessage) EXCEPT !.running = FALSE]}

\* An op_trap that links R7 before it calls the routine.
op_trap_links_r7(m, instr) ==
    LET vect == BitAnd(instr, 255)
        m1 == [m EXCEPT !.reg[R_R7] = m.reg[R_PC]]
    IN  CASE vect = TRAP_GETC -> trap_getc(m1)
          [] vect = TRAP_OUT -> trap_out(m1)
          [] vect = TRAP_PUTS -> trap_puts(m1)
          [] vect = TRAP_IN -> trap_in(m1)
          [] vect = TRAP_PUTSP -> trap_putsp(m1)
          [] vect = TRAP_HALT -> trap_halt(m1)
          [] OTHER -> {m1}

op_trap(m, instr) ==
    LET vect == BitAnd(instr, 255)
    IN  CASE vect = TRAP_GETC -> trap_getc(m)
          [] vect = TRAP_OUT -> trap_out(m)
          [] vect = TRAP_PUTS -> trap_puts(m)
          [] vect = TRAP_IN -> trap_in(m)
          [] vect = TRAP_PUTSP -> trap_putsp(m)
          [] vect = TRAP_HALT -> trap_halt(m)
          [] OTHER -> {m}

---------------------------------------------------------------------------
(* main(): the process from its start to its end.                          *)
(*   pc           : where main() is: "main", "read_image", "signal",       *)
(*                  "tcgetattr", "tcsetattr", "set_pc", "loop", "exited".  *)
(*   term         : the terminal's mode.                                   *)
(*   original_tio : the static of that name.                               *)
(*   handler      : handle_interrupt is installed for SIGINT.              *)
(*   status       : how the process ended: "none" while it runs, "exit 0", *)
(*                  "exit 254" (exit(-2)), "SIGABRT" (abort()), "SIGINT"   *)
(*                  (killed by the signal's default action).               *)
(*   steps        : instructions executed so far.                          *)
(*   ir           : the loop's local instr: the last word fetched.         *)
(*   call         : the last direct call of a function (CallMemWrite ...); *)
(*                  main() makes none.                                     *)

NoCall == [fn |-> "none", address |-> 0, val |-> 0, prev |-> <<>>]

\* call without its own history, as the prev of the next call
Last(c) == [fn |-> c.fn, address |-> c.address, val |-> c.val]

Init ==
    /\ vm = NewMachine
    /\ pc = "main"
    /\ term = HostTio
    /\ original_tio = ZeroTio
    /\ handler = FALSE
    /\ status = "none"
    /\ steps = 0
    /\ ir = 0
    /\ call = NoCall

\* main(), lines 456-457: without an image path the process returns 0.
MainArgs ==
    /\ pc = "main"
    /\ \/ pc' = "exited" /\ status' = "exit 0"
       \/ pc' = "read_image" /\ status' = status
    /\ UNCHANGED <<vm, ir, term, original_tio, handler, steps, call>>

\* read_image(argv[1]); main() drops its result.  A file that opens is loaded
\* at its origin; its words are chosen when the machine first reads them.
ReadImage ==
    /\ pc = "read_image"
    /\ \/ vm' = vm
       \/ \E o \in Origins : vm' = [vm EXCEPT !.image = [loaded |-> TRUE, origin |-> o]]
    /\ pc' = "signal"
    /\ UNCHANGED <<ir, term, original_tio, handler, status, steps, call>>

\* signal(SIGINT, handle_interrupt)
InstallHandler ==
    /\ pc = "signal"
    /\ handler' = TRUE
    /\ pc' = "tcgetattr"
    /\ UNCHANGED <<vm, ir, term, original_tio, status, steps, call>>

\* disable_input_buffering(), first call: tcgetattr(STDIN_FILENO, &original_tio)
TcGetAttr ==
    /\ pc = "tcgetattr"
    /\ original_tio' = term
    /\ pc' = "tcsetattr"
    /\ UNCHANGED <<vm, ir, term, handler, status, steps, call>>

\* disable_input_buffering(), the rest: ICANON and ECHO cleared
TcSetAttr ==
    /\ pc = "tcsetattr"
    /\ term' = [original_tio EXCEPT !.icanon = FALSE, !.echo = FALSE]
    /\ pc' = "set_pc"
    /\ UNCHANGED <<vm, ir, original_tio, handler, status, steps, call>>

\* reg[R_PC] = PC_START; running = true;
SetPC ==
    /\ pc = "set_pc"
    /\ vm' = [vm EXCEPT !.reg[R_PC] = PC_START, !.running = TRUE]
    /\ pc' = "loop"
    /\ UNCHANGED <<ir, term, original_tio, handler, status, steps, call>>

\* instr = mem_read(reg[R_PC]++): the set of [val, m]
Fetch(m) == mem_read([m EXCEPT !.reg[R_PC] = U16(@ + 1)], m.reg[R_PC], Instrs)

\* The loop's condition holds (and the run is within the model's bound).
InLoop == pc = "loop" /\ vm.running /\ steps < MaxSteps

\* What a turn of the loop leaves alone.
Turn == steps' = steps + 1 /\ UNCHANGED <<pc, term, original_tio, handler, status, call>>

\* One action per case of the switch: fetch, decode, call the handler.
OpAdd ==
    /\ InLoop
    /\ \E f \in Fetch(vm) :
          Shr(f.val, 12) = OP_ADD /\ ir' = f.val /\ vm' \in op_add(f.m, f.val)
    /\ Turn

OpAnd ==
    /\ InLoop
    /\ \E f \in Fetch(vm) :
          Shr(f.val, 12) = OP_AND /\ ir' = f.val /\ vm' \in op_and(f.m, f.val)
    /\ Turn

OpNot ==
    /\ InLoop
    /\ \E f \in Fetch(vm) :
          Shr(f.val, 12) = OP_NOT /\ ir' = f.val /\ vm' \in op_not(f.m, f.val)
    /\ Turn

OpBr ==
    /\ InLoop
    /\ \E f \in Fetch(vm) :
          Shr(f.val, 12) = OP_BR /\ ir' = f.val /\ vm' \in op_br(f.m, f.val)
    /\ Turn

OpJmp ==
    /\ InLoop
    /\ \E f \in Fetch(vm) :
          Shr(f.val, 12) = OP_JMP /\ ir' = f.val /\ vm' \in op_jmp(f.m, f.val)
    /\ Turn

OpJsr ==
    /\ InLoop
    /\ \E f \in Fetch(vm) :
          Shr(f.val, 12) = OP_JSR /\ ir' = f.val /\ vm' \in op_jsr(f.m, f.val)
    /\ Turn

OpLd ==
    /\ InLoop
    /\ \E f \in Fetch(vm) :
          Shr(f.val, 12) = OP_LD /\ ir' = f.val /\ vm' \in op_ld(f.m, f.val)
    /\ Turn

OpLdi ==
    /\ InLoop
    /\ \E f \in Fetch(vm) :
          Shr(f.val, 12) = OP_LDI /\ ir' = f.val /\ vm' \in op_ldi(f.m, f.val)
    /\ Turn

OpLdr ==
    /\ InLoop
    /\ \E f \in Fetch(vm) :
          Shr(f.val, 12) = OP_LDR /\ ir' = f.val /\ vm' \in op_ldr(f.m, f.val)
    /\ Turn

OpLea ==
    /\ InLoop
    /\ \E f \in Fetch(vm) :
          Shr(f.val, 12) = OP_LEA /\ ir' = f.val /\ vm' \in op_lea(f.m, f.val)
    /\ Turn

OpSt ==
    /\ InLoop
    /\ \E f \in Fetch(vm) :
          Shr(f.val, 12) = OP_ST /\ ir' = f.val /\ vm' \in op_st(f.m, f.val)
    /\ Turn

OpSti ==
    /\ InLoop
    /\ \E f \in Fetch(vm) :
          Shr(f.val, 12) = OP_STI /\ ir' = f.val /\ vm' \in op_sti(f.m, f.val)
    /\ Turn

OpStr ==
    /\ InLoop
    /\ \E f \in Fetch(vm) :
          Shr(f.val, 12) = OP_STR /\ ir' = f.val /\ vm' \in op_str(f.m, f.val)
    /\ Turn

OpTrap ==
    /\ InLoop
    /\ \E f \in Fetch(vm) :
          Shr(f.val, 12) = OP_TRAP /\ ir' = f.val /\ vm' \in op_trap(f.m, f.val)
    /\ Turn

\* case OP_RES: case OP_RTI: default: abort();
OpAbort ==
    /\ InLoop
    /\ \E f \in Fetch(vm) :
          Shr(f.val, 12) \in {OP_RES, OP_RTI} /\ ir' = f.val /\ vm' = f.m
    /\ steps' = steps + 1
    /\ status' = "SIGABRT"
    /\ pc' = "exited"
    /\ UNCHANGED <<term, original_tio, handler, call>>

\* The loop ends: restore_input_buffering(); return 0;
Shutdown ==
    /\ pc = "loop"
    /\ ~vm.running
    /\ term' = original_tio
    /\ status' = "exit 0"
    /\ pc' = "exited"
    /\ UNCHANGED <<vm, ir, original_tio, handler, steps, call>>

\* SIGINT arrives.  With the handler installed: handle_interrupt(), which is
\* restore_input_buffering(); printf("\n"); exit(-2).  Before that the signal
\* kills the process.
Interrupt ==
    /\ pc # "exited"
    /\ \/ /\ handler
          /\ term' = original_tio
          /\ vm' = Emit(vm, <<10>>)
          /\ status' = "exit 254"
       \/ /\ ~handler
          /\ status' = "SIGINT"
          /\ UNCHANGED <<term, vm>>
    /\ pc' = "exited"
    /\ UNCHANGED <<ir, original_tio, handler, steps, call>>

\* The host: a key is typed.
KeyArrive ==
    /\ pc # "exited"
    /\ vm.nin < MaxInput
    /\ ~vm.eof
    /\ \E b \in Bytes : vm' = [vm EXCEPT !.fdq = Append(@, b), !.nin = @ + 1]
    /\ UNCHANGED <<pc, ir, term, original_tio, handler, status, steps, call>>

\* The host: the terminal hangs up, reads of fd 0 return end of file.
HangUp ==
    /\ pc # "exited"
    /\ ~vm.eof
    /\ vm' = [vm EXCEPT !.eof = TRUE]
    /\ UNCHANGED <<pc, ir, term, original_tio, handler, status, steps, call>>

Next ==
    \/ MainArgs \/ ReadImage \/ InstallHandler \/ TcGetAttr \/ TcSetAttr \/ SetPC
    \/ OpAdd \/ OpAnd \/ OpNot \/ OpBr \/ OpJmp \/ OpJsr
    \/ OpLd \/ OpLdi \/ OpLdr \/ OpLea \/ OpSt \/ OpSti \/ OpStr
    \/ OpTrap \/ OpAbort \/ Shutdown
    \/ Interrupt \/ KeyArrive \/ HangUp

Spec == Init /\ [][Next]_vars

---------------------------------------------------------------------------
(* The memory functions and the input traps called directly, in any order, *)
(* on the machine main() has set up when the loop starts: what a program   *)
(* of loads, stores and traps makes the handlers do, without the fetches.  *)

TestAddrs == {PC_START, MR_KBSR, MR_KBDR, 65535}
TestWords == {0, 4660}

\* The process at the head of the loop, with machine m.
AtLoop(m) ==
    /\ vm = m
    /\ pc = "loop"
    /\ ir = 0
    /\ term = [HostTio EXCEPT !.icanon = FALSE, !.echo = FALSE]
    /\ original_tio = HostTio
    /\ handler = TRUE
    /\ status = "none"
    /\ steps = 0
    /\ call = NoCall

\* The machine when the loop starts, after read_image left img.
StartMachine(img) ==
    [NewMachine EXCEPT !.image = img, !.reg[R_PC] = PC_START, !.running = TRUE]

InitMem ==
    \E img \in {[loaded |-> FALSE, origin |-> 0], [loaded |-> TRUE, origin |-> PC_START]} :
        AtLoop(StartMachine(img))

Called == steps' = steps + 1 /\ UNCHANGED <<pc, ir, term, original_tio, handler, status>>

CallMemWrite ==
    /\ pc = "loop" /\ steps < MaxCalls
    /\ \E a \in TestAddrs, w \in TestWords :
          /\ vm' \in mem_write(vm, a, w)
          /\ call' = [fn |-> "mem_write", address |-> a, val |-> w, prev |-> Last(call)]
    /\ Called

CallMemRead ==
    /\ pc = "loop" /\ steps < MaxCalls
    /\ \E a \in TestAddrs :
          \E r \in mem_read(vm, a, DataWords) :
             /\ vm' = r.m
             /\ call' = [fn |-> "mem_read", address |-> a, val |-> r.val,
                         prev |-> Last(call)]
    /\ Called

CallTrapGetc ==
    /\ pc = "loop" /\ steps < MaxCalls
    /\ vm' \in trap_getc(vm)
    /\ call' = [fn |-> "trap_getc", address |-> 0, val |-> vm'.reg[R_R0],
                prev |-> Last(call)]
    /\ Called

CallTrapIn ==
    /\ pc = "loop" /\ steps < MaxCalls
    /\ vm' \in trap_in(vm)
    /\ call' = [fn |-> "trap_in", address |-> 0, val |-> vm'.reg[R_R0],
                prev |-> Last(call)]
    /\ Called

NextMem ==
    \/ CallMemWrite \/ CallMemRead \/ CallTrapGetc \/ CallTrapIn
    \/ KeyArrive \/ HangUp

SpecMem == InitMem /\ [][NextMem]_vars

---------------------------------------------------------------------------
(* main() continued from a state it reaches: the image                     *)
(*     x3000  LD  R1, +1                                                   *)
(*     x3001  JMP R1                                                       *)
(*     x3002  .FILL t                                                      *)
(* has run its two instructions, so that PC = R1 = t.  The loop goes on    *)
(* from there for MaxSteps more instructions, which brings the cells next  *)
(* to the device registers and the end of memory within reach.             *)

Targets == {65021, 65533, 65534, MR_KBSR}

Prologue(t) ==
    [StartMachine([loaded |-> TRUE, origin |-> PC_START]) EXCEPT
        !.memory = [a \in {PC_START, PC_START + 1, PC_START + 2} |->
                       IF a = PC_START THEN 8705
                       ELSE IF a = PC_START + 1 THEN 49216
                       ELSE t]]

\* The machine after the loop ran n instructions from m (for a program
\* whose every step has one outcome).
RECURSIVE Run(_, _)
Run(m, n) ==
    IF n = 0 THEN m
    ELSE LET f == CHOOSE f \in Fetch(m) : TRUE
             op == Shr(f.val, 12)
         IN  Run(CHOOSE m2 \in (IF op = OP_LD THEN op_ld(f.m, f.val)
                                ELSE op_jmp(f.m, f.val)) : TRUE,
                 n - 1)

Jumped(t) == Run(Prologue(t), 2)

InitDeep ==
    \/ Init
    \/ \E t \in Targets :
          /\ vm = Jumped(t)
          /\ pc = "loop"
          /\ ir = 49216
          /\ term = [HostTio EXCEPT !.icanon = FALSE, !.echo = FALSE]
          /\ original_tio = HostTio
          /\ handler = TRUE
          /\ status = "none"
          /\ steps = 0
          /\ call = NoCall

SpecDeep == InitDeep /\ [][Next]_vars

---------------------------------------------------------------------------
(* Vocabulary of the properties: the fields of the last instruction the    *)
(* loop executed (ir, once steps > 0), decoded by arithmetic.              *)

Opcode(w) == w \div 4096
DstReg(w) == (w \div 512) % 8
\* the 9-bit PC offset of w as a signed number
Offset9(w) == IF w % 512 >= 256 THEN (w % 512) - 512 ELSE w % 512

\* c is the flag of the 16-bit value d: NEG iff bit 15 is set, ZRO iff d is
\* zero, POS otherwise.
FlagOf(c, d) ==
    /\ c = FL_NEG <=> d >= 32768
    /\ c = FL_ZRO <=> d = 0
    /\ c = FL_POS <=> (d > 0 /\ d < 32768)

\* This step is a turn of the loop that executed an instruction of opcode op.
Executes(op) == steps' = steps + 1 /\ pc = "loop" /\ Opcode(ir') = op

---------------------------------------------------------------------------
\* C1: after ADD, AND, NOT, LD, LDI or LDR with destination DR, COND is NEG
\* iff bit 15 of DR's final value is 1, ZRO iff that value is 0, and POS
\* otherwise.
C1_FlagsFollowResult ==
    (steps > 0 /\ Opcode(ir) \in {OP_ADD, OP_AND, OP_NOT, OP_LD, OP_LDI, OP_LDR})
        => FlagOf(vm.reg[R_COND], vm.reg[DstReg(ir)])

\* An ADD R1, R1, #-1 that left R1 = 0xFFFF and COND = NEG.
C1_Witness ==
    /\ steps > 0
    /\ ir = 4735
    /\ vm.reg[1] = 65535
    /\ vm.reg[R_COND] = FL_NEG

\* C2 as stated: LEA leaves COND as it was.
C2_LeaKeepsCond ==
    [][Executes(OP_LEA) => vm'.reg[R_COND] = vm.reg[R_COND]]_vars

\* C2, amended: LEA sets the condition flags from DR's final value, which is
\* PC + offset; of R0 .. R7 only DR changes.
C2_LeaSetsFlags ==
    [][Executes(OP_LEA) =>
          /\ vm'.reg[DstReg(ir')] = (vm.reg[R_PC] + 1 + Offset9(ir')) % WordMod
          /\ FlagOf(vm'.reg[R_COND], vm'.reg[DstReg(ir')])
          /\ \A r \in 0 .. 7 : r # DstReg(ir') => vm'.reg[r] = vm.reg[r]]_vars

\* A LEA R0, +1 at x3000 that left R0 = x3002 and COND = POS.
C2_Witness ==
    /\ steps > 0
    /\ ir = 57345
    /\ vm.reg[R_R0] = PC_START + 2
    /\ vm.reg[R_COND] = FL_POS

\* C3: a BR with mask 7 branches in every state in which it executes: PC
\* becomes PC + signext(PCoffset9), PC being the incremented one.
C3_BrNzpBranches ==
    [][(Executes(OP_BR) /\ DstReg(ir') = 7) =>
          vm'.reg[R_PC] = (vm.reg[R_PC] + 1 + Offset9(ir')) % WordMod]_vars

\* C4: no fetch, mem_read or mem_write accesses a cell outside memory[].
C4_AccessInsideMemory == ~vm.oob

\* C5: for an address other than KBSR, a mem_read that directly follows a
\* mem_write of w to the same address returns w; KBDR included, a key
\* pending or not.
C5_ReadReturnsWritten ==
    (/\ call.fn = "mem_read"
     /\ call.prev.fn = "mem_write"
     /\ call.prev.address = call.address
     /\ call.address # MR_KBSR)
        => call.val = call.prev.val

\* mem_write(KBDR, x1234) then mem_read(KBDR) gave x1234, with a key typed.
C5_Witness ==
    /\ call.fn = "mem_read"
    /\ call.address = MR_KBDR
    /\ call.val = 4660
    /\ call.prev = [fn |-> "mem_write", address |-> MR_KBDR, val |-> 4660]
    /\ vm.fdq # <<>>

\* C6: mem_read(KBSR) returns x8000 iff an input byte is pending at the
\* moment of the read, and then KBDR holds that byte; otherwise it returns 0.
\* Pending: delivered by the host and not yet handed to the program.
C6_KbsrReportsPending ==
    [][(steps' = steps + 1 /\ call'.fn = "mem_read" /\ call'.address = MR_KBSR) =>
          LET pending == vm.sbuf \o vm.fdq
          IN  /\ call'.val = 32768 <=> pending # <<>>
              /\ call'.val = 32768 => vm'.memory[MR_KBDR] = Head(pending)
              /\ pending = <<>> => call'.val = 0]_vars

\* This step executes an LD right after an ST with the same effective
\* address, e.
StoreThenLoad(e) ==
    /\ steps > 0
    /\ Opcode(ir) = OP_ST
    /\ Executes(OP_LD)
    /\ e = (vm.reg[R_PC] + Offset9(ir)) % WordMod
    /\ e = (vm.reg[R_PC] + 1 + Offset9(ir')) % WordMod

\* The LD left in DR the value v the ST stored, and its flag in COND.
Loaded(v) ==
    /\ vm'.reg[DstReg(ir')] = v
    /\ FlagOf(vm'.reg[R_COND], v)

\* C7 as stated: ST SR then LD DR with the same effective address leaves
\* DR = SR and COND its flag, at every address.
C7_StoreLoadRoundTrip ==
    [][\A e \in {(vm.reg[R_PC] + Offset9(ir)) % WordMod} :
          StoreThenLoad(e) => Loaded(vm.reg[DstReg(ir)])]_vars

\* C7, amended: the same at every effective address but KBSR.
C7_StoreLoadRoundTripButKbsr ==
    [][\A e \in {(vm.reg[R_PC] + Offset9(ir)) % WordMod} :
          (StoreThenLoad(e) /\ e # MR_KBSR) => Loaded(vm.reg[DstReg(ir)])]_vars

\* ST R1, -1 at xFDFD stored R1 = xFDFD in that cell and LD R2, -2 at xFDFE
\* loaded it: R2 = xFDFD, COND = NEG.
C7_Witness ==
    /\ steps = 2
    /\ ir = 9726
    /\ vm.reg[R_PC] = 65023
    /\ 65021 \in DOMAIN vm.memory
    /\ vm.memory[65021] = 65021
    /\ vm.reg[2] = 65021
    /\ vm.reg[R_COND] = FL_NEG

\* Once the loop's condition is false, main() goes on to its return.
SpecLive == Spec /\ WF_vars(Shutdown)

\* What the steps from the head of the loop do to running, and what a step
\* may do once it is false.
HaltStep ==
    /\ (pc # "loop" /\ pc' = "loop") => vm'.running
    /\ (vm.running /\ ~vm'.running) =>
          (Executes(OP_TRAP) /\ ir' % 256 = TRAP_HALT)
    /\ (Executes(OP_TRAP) /\ ir' % 256 = TRAP_HALT) => ~vm'.running
    /\ (pc = "loop" /\ ~vm.running) =>
          /\ steps' = steps
          /\ ir' = ir
          /\ vm'.reg = vm.reg
          /\ vm'.memory = vm.memory
          /\ pc' \in {"loop", "exited"}

\* C8 as stated: running is true when the loop starts and becomes false only
\* by TRAP x25, which clears it; once it is false no instruction is fetched
\* or executed, registers and memory keep their values, and the process ends,
\* with status 0.
C8_HaltExitsZero ==
    /\ [][/\ HaltStep
          /\ (pc = "loop" /\ ~vm.running /\ pc' = "exited") =>
                status' = "exit 0"]_vars
    /\ (pc = "loop" /\ ~vm.running) ~> (pc = "exited")

\* C8: running is true when the loop starts and becomes false only by TRAP
\* x25, which clears it; once it is false no instruction is fetched or
\* executed, registers and memory keep their values, and the process ends:
\* with status 0, or with 254 and a newline written if SIGINT is handled
\* before main() returns.
C8_HaltEndsTheLoop ==
    /\ [][/\ HaltStep
          /\ (pc = "loop" /\ ~vm.running /\ pc' = "exited") =>
                \/ status' = "exit 0"
                \/ status' = "exit 254" /\ vm'.out = Append(vm.out, 10)]_vars
    /\ (pc = "loop" /\ ~vm.running) ~> (pc = "exited")

\* The process has ended with status 0 after a HALT.
C8_Witness ==
    /\ pc = "exited"
    /\ status = "exit 0"
    /\ steps > 0
    /\ ir = 61477
    /\ ~vm.running

\* C9: a process that ends by HALT or by a fatal opcode leaves the terminal
\* in the mode it had at the start.
C9_TerminalRestoredOnExit ==
    (pc = "exited" /\ status \in {"exit 0", "SIGABRT"}) => term = HostTio

\* C10: after the handler of SIGINT has run, the terminal is in the mode it
\* had at the start, the status is not zero and the process has ended.
C10_InterruptRestoresTerminal ==
    status = "exit 254" => (term = HostTio /\ pc = "exited")

\* C11: when the image file cannot be opened the process does not enter the
\* execution loop and fetches or executes no instruction.
C11_NoLoopWithoutImage ==
    (pc \notin {"main", "read_image"} /\ ~vm.image.loaded) =>
        (pc # "loop" /\ steps = 0)

---------------------------------------------------------------------------
(* The loader on the bytes of a file: read_image on a machine whose memory *)
(* is still the zero of static storage, for files that are the big-endian  *)
(* serialization of an origin and a run of words.                          *)

\* words of payload in an image file
MaxImage == 3

\* Origins and payload words of the files loaded: the start address and the
\* last three addresses; words whose two bytes differ.
LoadOrigins == {PC_START, 65533, 65534, 65535}
LoadWords == {0, 255, 4660, 43981}

swap16(x) == U16(BitOr(Shl(x, 8), Shr(x, 8)))

\* The uint16_t that fread leaves in memory from the bytes b0, b1 of the
\* file, on the little-endian hosts the program is built for.
HostWord(b0, b1) == b0 + 256 * b1

\* file: the bytes of the file, at least the two of the origin.  The first
\* fread takes the origin, the second at most max_read whole words, and the
\* loop swaps the words read.
read_image_file(m, file) ==
    LET origin == swap16(HostWord(file[1], file[2]))
        max_read == UINT16_MAX - origin
        items == (Len(file) - 2) \div 2
        actual_read == IF items < max_read THEN items ELSE max_read
        loaded == {origin + i : i \in 0 .. actual_read - 1}
    IN  [m EXCEPT !.memory =
            [a \in DOMAIN @ \cup loaded |->
                IF a \in loaded
                THEN swap16(HostWord(file[2 * (a - origin) + 3],
                                     file[2 * (a - origin) + 4]))
                ELSE @[a]]]

\* opens: fopen succeeds.  The pair of the result and the machine left.
read_image(m, file, opens) ==
    IF ~opens
    THEN [ok |-> FALSE, m |-> m]
    ELSE [ok |-> TRUE, m |-> read_image_file(m, file)]

\* The bytes of w, high byte first.
BigEndian(w) == <<w \div 256, w % 256>>

\* The image file of the words ws at origin o.
RECURSIVE Serialize(_, _)
Serialize(o, ws) ==
    IF ws = <<>> THEN BigEndian(o)
    ELSE Serialize(o, SubSeq(ws, 1, Len(ws) - 1)) \o BigEndian(ws[Len(ws)])

\* The payloads: every sequence of at most MaxImage words.
Payloads == UNION {[1 .. n -> LoadWords] : n \in 0 .. MaxImage}

\* main() about to call read_image on the file of ws at o; call keeps the
\* origin and the words serialized.
InitLoad ==
    /\ vm = NewMachine
    /\ pc = "read_image"
    /\ term = HostTio
    /\ original_tio = ZeroTio
    /\ handler = FALSE
    /\ status = "none"
    /\ steps = 0
    /\ ir = 0
    /\ \E o \in LoadOrigins, ws \in Payloads :
          call = [fn |-> "read_image", address |-> o, val |-> FALSE, prev |-> ws]

\* read_image(argv[1]) returns true: the file was opened and loaded.
LoadImage ==
    /\ pc = "read_image"
    /\ LET r == read_image(vm, Serialize(call.address, call.prev), TRUE)
       IN  vm' = r.m /\ call' = [call EXCEPT !.val = r.ok]
    /\ pc' = "signal"
    /\ UNCHANGED <<ir, term, original_tio, handler, status, steps>>

\* read_image(argv[1]) returns false: fopen failed.
OpenFails ==
    /\ pc = "read_image"
    /\ LET r == read_image(vm, <<>>, FALSE)
       IN  vm' = r.m /\ call' = [call EXCEPT !.val = r.ok]
    /\ pc' = "signal"
    /\ UNCHANGED <<ir, term, original_tio, handler, status, steps>>

NextLoad == LoadImage \/ OpenFails

SpecLoad == InitLoad /\ [][NextLoad]_vars

\* The values memory[a] can have as an rvalue, nothing chosen lazily.
CellNow(m, a) == {r.val : r \in CellRead(m, a, {0})}

\* C12: after loading the file of the words ws at origin o, every cell
\* o + i up to and including xFFFF holds ws[i]; the words that would fall
\* behind xFFFF are discarded and every other cell is as it was (zero).
C12_LoaderRoundTrip ==
    (pc = "signal" /\ call.val = TRUE) =>
        LET o == call.address
            ws == call.prev
        IN  /\ \A i \in 0 .. Len(ws) - 1 :
                  o + i <= 65535 => CellNow(vm, o + i) = {ws[i + 1]}
            /\ \A a \in DOMAIN vm.memory :
                  (a < o \/ a >= o + Len(ws)) => vm.memory[a] = 0
            /\ vm.reg = NewMachine.reg

\* the 11-bit PC offset of w as a signed number
Offset11(w) == IF w % 2048 >= 1024 THEN (w % 2048) - 2048 ELSE w % 2048
\* the base register field of w
BaseReg(w) == (w \div 64) % 8
\* w is the offset form of JSR
LongForm(w) == (w \div 2048) % 2 = 1

\* C13: JSR and JSRR leave the incremented PC, the address behind the JSR,
\* in R7; a JMP R7 executed right after a JSR brings PC back to the address
\* behind the JSR.
C13_JsrReturns ==
    [][/\ Executes(OP_JSR) => vm'.reg[R_R7] = (vm.reg[R_PC] + 1) % WordMod
       /\ (/\ steps > 0
           /\ Opcode(ir) = OP_JSR
           /\ Executes(OP_JMP)
           /\ BaseReg(ir') = R_R7) =>
             /\ vm'.reg[R_PC] = vm.reg[R_R7]
             /\ LongForm(ir) =>
                   vm'.reg[R_PC] = (vm.reg[R_PC] - Offset11(ir)) % WordMod]_vars

\* JSR +1 at x3000, then the JMP R7 at x3002 brought PC back to x3001.
C13_Witness ==
    /\ steps = 2
    /\ ir = 49600
    /\ vm.reg[R_PC] = PC_START + 1
    /\ vm.reg[R_R7] = PC_START + 1

\* The switch of the loop: the machines the handler of instr can leave.  The
\* fatal opcodes end the process by abort(); the empty set: the handler is
\* blocked in a call that does not return.
Dispatch(m, instr) ==
    LET op == Shr(instr, 12)
    IN  CASE op = OP_ADD -> op_add(m, instr)
          [] op = OP_AND -> op_and(m, instr)
          [] op = OP_NOT -> op_not(m, instr)
          [] op = OP_BR -> op_br(m, instr)
          [] op = OP_JMP -> op_jmp(m, instr)
          [] op = OP_JSR -> op_jsr(m, instr)
          [] op = OP_LD -> op_ld(m, instr)
          [] op = OP_LDI -> op_ldi(m, instr)
          [] op = OP_LDR -> op_ldr(m, instr)
          [] op = OP_LEA -> op_lea(m, instr)
          [] op = OP_ST -> op_st(m, instr)
          [] op = OP_STI -> op_sti(m, instr)
          [] op = OP_STR -> op_str(m, instr)
          [] op = OP_TRAP -> op_trap(m, instr)
          [] OTHER -> {m}

\* w is a TRAP to one of the routines that read a character.
ReadsChar(w) == Opcode(w) = OP_TRAP /\ w % 256 \in {TRAP_GETC, TRAP_IN}

\* C14: at the head of the loop the fetch returns, whatever the address, and
\* the handler of the word fetched returns unless it is GETC or IN: with no
\* input pending too, and for the reads of KBSR too.
C14_BlocksOnlyInGetcIn ==
    (pc = "loop" /\ vm.running) =>
        /\ Fetch(vm) # {}
        /\ \A f \in Fetch(vm) : ReadsChar(f.val) \/ Dispatch(f.m, f.val) # {}

\* The fetch at KBSR returned with no byte delivered and no hang-up: it
\* found 0 there, a BR that falls through to the word behind KBSR.
C14_Witness ==
    /\ pc = "loop"
    /\ steps > 0
    /\ ir = 0
    /\ vm.reg[R_PC] = MR_KBSR + 1
    /\ MR_KBSR \in DOMAIN vm.memory
    /\ vm.memory[MR_KBSR] = 0
    /\ vm.nin = 0
    /\ ~vm.eof

\* The bytes PUTS (packed = FALSE) or PUTSP (packed = TRUE) is to write for
\* the words of mem from address a up to the first zero word, addresses
\* taken modulo 2^16.
RECURSIVE StringText(_, _, _)
StringText(mem, a, packed) ==
    IF a \notin DOMAIN mem \/ mem[a] = 0 THEN <<>>
    ELSE (IF packed /\ mem[a] \div 256 # 0
          THEN <<mem[a] % 256, mem[a] \div 256>>
          ELSE <<mem[a] % 256>>)
         \o StringText(mem, (a + 1) % WordMod, packed)

\* C15: PUTS and PUTSP write the characters of the words from mem[R0] up to
\* the first zero word and read no cell outside memory, wherever R0 points.
C15_StringStopsInsideMemory ==
    [][(/\ Executes(OP_TRAP)
        /\ ir' % 256 \in {TRAP_PUTS, TRAP_PUTSP}
        /\ vm.reg[R_PC] < UINT16_MAX) =>
          /\ vm'.oob = vm.oob
          /\ vm'.out = vm.out \o StringText(vm'.memory, vm.reg[R_R0],
                                            ir' % 256 = TRAP_PUTSP)]_vars

\* C16: a GETC or IN that reads the byte b the host delivered leaves R0 = b,
\* for every b in 0 .. 255.
C16_CharInR0 ==
    [][(/\ Executes(OP_TRAP)
        /\ ReadsChar(ir')
        /\ vm.sbuf \o vm.fdq # <<>>) =>
          vm'.reg[R_R0] = Head(vm.sbuf \o vm.fdq)]_vars

\* the 5-bit immediate of w as a signed number
Imm5(w) == IF w % 32 >= 16 THEN (w % 32) - 32 ELSE w % 32
\* w is the immediate form of ADD or AND
ImmForm(w) == (w \div 32) % 2 = 1

\* C17: ADD leaves (SR1 + operand) mod 2^16 in DR, the operand being SR2 or
\* the sign-extended IMM5, also when DR is SR1 or SR2; with IMM5 = 11111 that
\* is (SR1 - 1) mod 2^16.
C17_AddWraps ==
    [][Executes(OP_ADD) =>
          LET operand == IF ImmForm(ir') THEN Imm5(ir') ELSE vm.reg[ir' % 8]
          IN  /\ vm'.reg[DstReg(ir')] = (vm.reg[BaseReg(ir')] + operand) % WordMod
              /\ (ImmForm(ir') /\ ir' % 32 = 31) =>
                    vm'.reg[DstReg(ir')] = (vm.reg[BaseReg(ir')] + 65535) % WordMod]_vars

\* ADD R1, R1, #-1 took R1 from 0 to xFFFF and, executed again, to xFFFE.
C17_Witness ==
    /\ steps = 2
    /\ ir = 4735
    /\ vm.reg[1] = 65534

\* The opcodes whose handlers call update_flags.
FlagSetting == {OP_ADD, OP_AND, OP_NOT, OP_LD, OP_LDI, OP_LDR, OP_LEA}

OneHot == {FL_POS, FL_ZRO, FL_NEG}

\* C18: COND is 0 or one of POS, ZRO, NEG in every state; it is one of the
\* three after an instruction that sets the flags and from then on; and no
\* step but such an instruction changes it: not BR, JMP, JSR, JSRR, ST, STI,
\* STR or TRAP.
C18_CondOneHot ==
    [][/\ vm.reg[R_COND] \in OneHot \cup {0}
       /\ vm'.reg[R_COND] \in OneHot \cup {0}
       /\ (\E op \in FlagSetting : Executes(op)) => vm'.reg[R_COND] \in OneHot
       /\ vm.reg[R_COND] \in OneHot => vm'.reg[R_COND] \in OneHot
       /\ vm'.reg[R_COND] # vm.reg[R_COND] => \E op \in FlagSetting : Executes(op)]_vars

\* AND R1, R1, #0 set ZRO, and the STR R1, R0, #-1 behind it, which writes
\* to address xFFFF, left COND as it was.
C18_Witness ==
    /\ steps = 2
    /\ ir = 29247
    /\ vm.oob
    /\ vm.reg[R_COND] = FL_ZRO

\* C19: a TRAP changes none of R1 .. R7 and COND and leaves PC incremented;
\* it changes R0 only if it is GETC or IN; with a vector outside x20 .. x25
\* it changes no register, no memory cell, not running, and writes nothing.
C19_TrapFrame ==
    [][Executes(OP_TRAP) =>
          /\ \A r \in (1 .. 7) \cup {R_COND} : vm'.reg[r] = vm.reg[r]
          /\ vm'.reg[R_PC] = (vm.reg[R_PC] + 1) % WordMod
          /\ vm'.reg[R_R0] # vm.reg[R_R0] => ReadsChar(ir')
          /\ ir' % 256 \notin TRAP_GETC .. TRAP_HALT =>
                /\ vm'.reg[R_R0] = vm.reg[R_R0]
                /\ \A a \in DOMAIN vm.memory : vm'.memory[a] = vm.memory[a]
                /\ DOMAIN vm'.memory \subseteq DOMAIN vm.memory \cup {vm.reg[R_PC]}
                /\ vm'.pad = vm.pad
                /\ vm'.running = vm.running
                /\ vm'.out = vm.out]_vars

\* JSR +1 at x3000 linked R7 = x3001; the TRAP xFF at x3002 left it there
\* and went on to x3003.
C19_Witness ==
    /\ steps = 2
    /\ ir = 61695
    /\ vm.reg[R_R7] = PC_START + 1
    /\ vm.reg[R_PC] = PC_START + 3
    /\ vm.running
    /\ vm.out = <<>>

\* C20: JSRR leaves the incremented PC in R7; with BaseR = R7 it reads R7
\* after that, so that PC is the incremented PC too and the value R7 had is
\* gone; with another base register PC becomes that register's value.
C20_JsrrBaseR7 ==
    [][(Executes(OP_JSR) /\ ~LongForm(ir')) =>
          /\ vm'.reg[R_R7] = (vm.reg[R_PC] + 1) % WordMod
          /\ BaseReg(ir') = R_R7 => vm'.reg[R_PC] = (vm.reg[R_PC] + 1) % WordMod
          /\ BaseReg(ir') # R_R7 => vm'.reg[R_PC] = vm.reg[BaseReg(ir')]]_vars

\* JSR +1 at x3000 linked R7 = x3001; the JSRR R7 at x3002 went on to x3003
\* with R7 = x3003, not to x3001.
C20_Witness ==
    /\ steps = 2
    /\ ir = 16832
    /\ vm.reg[R_R7] = PC_START + 3
    /\ vm.reg[R_PC] = PC_START + 3

=============================================================================
